---- MODULE Spec2Model ----
(***************************************************************************)
(* Model of action/tfapi.go: the Terraform Cloud registry client.          *)
(*                                                                         *)
(* A Go string is a sequence of atoms. An atom is one character ("/",      *)
(* "\"", "\\", DEL, " ") or a word of printable characters none of which   *)
(* is one of those ("api", "tf.example"). Concatenation, trimming,         *)
(* joining and quoting act on the atoms as the Go functions act on the     *)
(* characters.                                                             *)
(***************************************************************************)
EXTENDS Integers, Sequences, FiniteSets, TLC

\* ------------------------------------------------------------------ bounds
MaxClients == 3      \* operation clients obtained from the TFClient
MaxNameLen == 2      \* atoms in an upload filename
MaxBodyLen == 2      \* atoms in a raw body handed to buildRequest

\* --------------------------------------------------------------- constants
headerAccept             == "Accept"
headerAuthorization      == "Authorization"
headerContentDisposition == "Content-Disposition"
headerContentType        == "Content-Type"

applicationVNDAPIJSON == <<"application/vnd.api+json">>
applicationJSON       == <<"application/json">>

pathAPI               == <<"api">>
pathOrganizations     == <<"organizations">>
pathPlatforms         == <<"platforms">>
pathRegistryProviders == <<"registry-providers">>
pathVersions          == <<"versions">>
pathV2                == <<"v2">>

MethodPost == <<"POST">>
MethodPut  == <<"PUT">>

StatusOK      == 200
StatusCreated == 201

\* the control character U+007F, which net/url rejects and %q escapes
DEL == "<DEL>"

\* ----------------------------------------------------------------- strings
RECURSIVE TrimLeft(_, _)
TrimLeft(s, c) ==
    IF s # <<>> /\ Head(s) = c THEN TrimLeft(Tail(s), c) ELSE s

RECURSIVE TrimRight(_, _)
TrimRight(s, c) ==
    IF s # <<>> /\ s[Len(s)] = c THEN TrimRight(SubSeq(s, 1, Len(s) - 1), c) ELSE s

\* strings.Trim(s, cutset) with a one-character cutset
Trim(s, c) == TrimRight(TrimLeft(s, c), c)

Contains(s, c) == \E i \in 1..Len(s) : s[i] = c

StringsUpTo(A, n) == UNION {[1..k -> A] : k \in 0..n}

\* strconv.Quote of one character, as fmt's %q verb applies it
QuoteAtom(a) ==
    CASE a = "\"" -> <<"\\", "\"">>
      [] a = "\\" -> <<"\\", "\\">>
      [] a = DEL  -> <<"\\", "x7f">>
      [] OTHER    -> <<a>>

RECURSIVE QuoteBody(_)
QuoteBody(s) ==
    IF s = <<>> THEN <<>> ELSE QuoteAtom(Head(s)) \o QuoteBody(Tail(s))

\* a mutant of Quote: the string between quotes without escaping (%s in quotes)
Quote_Verbatim(s) == <<"\"">> \o s \o <<"\"">>

\* fmt.Sprintf("%q", s)
Quote(s) == <<"\"">> \o QuoteBody(s) \o <<"\"">>

\* fmt.Sprintf(attachmentFilenameFmt, filename)
attachmentFilename(filename) == <<"attachment;", " ", "filename=">> \o Quote(filename)

\* -------------------------------------------------------------- middleware
\* newTFClientMiddleware(cfg); hc is the client cleanhttp.DefaultClient() makes
newTFClientMiddleware(c, hc) ==
    [addr |-> Trim(c.TFAddress, "/"), bearerToken |-> c.TFToken, hc |-> hc]

\* a mutant of copy: the transport is not overridden
copy_SharedTransport(tm, hc) == tm

\* a mutant of copy: the copy drops the token
copy_DropToken(tm, hc) == [addr |-> tm.addr, bearerToken |-> <<>>, hc |-> hc]

\* tfClientMiddleware.copy(hc)
copy(tm, hc) == [tm EXCEPT !.hc = hc]

\* tfClientMiddleware.buildURL(route)
buildURL(tm, route) == tm.addr \o <<"/">> \o route

\* ----------------------------------------------------------- request body
NoErr == "nil"

\* the bodies passed as interface{}: nil, an io.Reader, a []byte, a value
\* json.Marshal encodes (a struct with one string field), and a value it
\* rejects (a channel, a func, a NaN)
NilValue        == [kind |-> "nil", bytes |-> <<>>]
Reader(b)       == [kind |-> "reader", bytes |-> b]
Bytes(b)        == [kind |-> "bytes", bytes |-> b]
Struct(b)       == [kind |-> "struct", bytes |-> b]
Unsupported     == [kind |-> "unsupported", bytes |-> <<>>]

NilBody == [nil |-> TRUE, bytes |-> <<>>]
BodyOf(b) == [nil |-> FALSE, bytes |-> b]

\* the escaping encoding/json applies inside a string
JSONEscapeAtom(a) ==
    CASE a = "\"" -> <<"\\", "\"">>
      [] a = "\\" -> <<"\\", "\\">>
      [] OTHER    -> <<a>>

RECURSIVE JSONEscape(_)
JSONEscape(s) ==
    IF s = <<>> THEN <<>> ELSE JSONEscapeAtom(Head(s)) \o JSONEscape(Tail(s))

\* base64.StdEncoding of the byte strings of the model
Base64(b) ==
    CASE b = <<>>            -> <<>>
      [] b = <<"PK", "\"">>  -> <<"UEsi">>
      [] OTHER               -> <<"base64">>

\* json.Marshal(v): [b, err]
jsonMarshal(v) ==
    CASE v.kind = "struct" ->
           [b   |-> <<"{", "\"", "data", "\"", ":", "\"">> \o JSONEscape(v.bytes) \o <<"\"", "}">>,
            err |-> NoErr]
      [] v.kind = "bytes" ->
           [b |-> <<"\"">> \o Base64(v.bytes) \o <<"\"">>, err |-> NoErr]
      [] v.kind = "nil" ->
           [b |-> <<"null">>, err |-> NoErr]
      [] v.kind = "reader" ->
           [b |-> <<"{", "}">>, err |-> NoErr]
      [] OTHER ->
           [b |-> <<>>, err |-> "marshal"]

\* a mutant of bodyReader: the io.Reader and []byte cases are missing
bodyReader_AlwaysJSON(body) ==
    IF body.kind = "nil" THEN [rdr |-> NilBody, err |-> NoErr]
    ELSE LET m == jsonMarshal(body) IN
         IF m.err # NoErr THEN [rdr |-> NilBody, err |-> "marshal"]
         ELSE [rdr |-> BodyOf(m.b), err |-> NoErr]

\* the type switch of buildRequest: [rdr, err]
bodyReader(body) ==
    CASE body.kind = "nil"    -> [rdr |-> NilBody, err |-> NoErr]
      [] body.kind = "reader" -> [rdr |-> BodyOf(body.bytes), err |-> NoErr]
      [] body.kind = "bytes"  -> [rdr |-> BodyOf(body.bytes), err |-> NoErr]
      [] OTHER ->
           LET m == jsonMarshal(body) IN
           IF m.err # NoErr THEN [rdr |-> NilBody, err |-> "marshal"]
           ELSE [rdr |-> BodyOf(m.b), err |-> NoErr]

\* ------------------------------------------------------------------- query
\* url.Values with one value per key; the keys in their sorted order
QueryKeys == <<"a", "b">>

NoQuery == <<>>

QueryEscapeAtom(a) ==
    CASE a = " " -> <<"+">>
      [] a = "/" -> <<"%2F">>
      [] OTHER   -> <<a>>

RECURSIVE QueryEscape(_)
QueryEscape(s) ==
    IF s = <<>> THEN <<>> ELSE QueryEscapeAtom(Head(s)) \o QueryEscape(Tail(s))

RECURSIVE EncodeFrom(_, _, _)
EncodeFrom(q, i, first) ==
    IF i > Len(QueryKeys) THEN <<>>
    ELSE IF QueryKeys[i] \in DOMAIN q
         THEN (IF first THEN <<>> ELSE <<"&">>)
              \o <<QueryKeys[i], "=">> \o QueryEscape(q[QueryKeys[i]])
              \o EncodeFrom(q, i + 1, FALSE)
         ELSE EncodeFrom(q, i + 1, first)

\* url.Values.Encode()
Encode(q) == EncodeFrom(q, 1, TRUE)

\* ----------------------------------------------------------------- request
NoHeader == <<>>

\* http.Header.Set
HeaderSet(h, k, v) == [x \in DOMAIN h \cup {k} |-> IF x = k THEN v ELSE h[x]]

NilReq == [nil |-> TRUE, method |-> <<>>, url |-> <<>>, header |-> NoHeader, body |-> NilBody]

\* http.NewRequestWithContext: the method must be a token, the URL must parse
\* (net/url rejects a control character)
NewRequestWithContext(method, u, rdr) ==
    IF Contains(method, " ") \/ Contains(u, DEL)
    THEN [req |-> NilReq, err |-> "newrequest"]
    ELSE [req |-> [nil |-> FALSE, method |-> method, url |-> u,
                   header |-> NoHeader, body |-> rdr],
          err |-> NoErr]

\* tfClientMiddleware.buildRequest(ctx, method, routePath, query, body): [req, err]
buildRequest(tm, method, routePath, query, body) ==
    LET b == bodyReader(body)
        compiledURL == IF DOMAIN query # {}
                       THEN buildURL(tm, routePath) \o <<"?">> \o Encode(query)
                       ELSE buildURL(tm, routePath)
    IN  IF b.err # NoErr THEN [req |-> NilReq, err |-> b.err]
        ELSE NewRequestWithContext(method, compiledURL, b.rdr)

\* ------------------------------------------------------------------ routes
RECURSIVE buildRoute(_)
\* buildRoute(segments...): the segments joined with "/"
buildRoute(segs) ==
    IF segs = <<>> THEN <<>>
    ELSE IF Len(segs) = 1 THEN Head(segs)
    ELSE Head(segs) \o <<"/">> \o buildRoute(Tail(segs))

\* a mutant of versionsRoute: registry name and namespace change places
versionsRoute_Swapped(orgName, regName, namespace, provName) ==
    buildRoute(<<pathAPI, pathV2, pathOrganizations, orgName, pathRegistryProviders,
                 namespace, regName, provName, pathVersions>>)

\* the route of CreateProviderVersion
versionsRoute(orgName, regName, namespace, provName) ==
    buildRoute(<<pathAPI, pathV2, pathOrganizations, orgName, pathRegistryProviders,
                 regName, namespace, provName, pathVersions>>)

\* the route of CreateProviderVersionPlatform
platformsRoute(orgName, regName, namespace, provName, provVersion) ==
    buildRoute(<<pathAPI, pathV2, pathOrganizations, orgName, pathRegistryProviders,
                 regName, namespace, provName, pathVersions, provVersion, pathPlatforms>>)

\* ----------------------------------------------------------------- headers
\* setBearerToken(req, token)
setBearerToken(req, token) ==
    [req EXCEPT !.header = HeaderSet(@, headerAuthorization, <<"Bearer", " ">> \o token)]

\* a mutant of createHeaders: the bearer token is not attached
createHeaders_NoBearer(req, tm) ==
    [req EXCEPT !.header =
        HeaderSet(HeaderSet(@, headerContentType, applicationVNDAPIJSON),
                  headerAccept, applicationJSON)]

\* the headers both create operations set on the built request
createHeaders(req, tm) ==
    LET r1 == setBearerToken(req, tm.bearerToken) IN
    [r1 EXCEPT !.header =
        HeaderSet(HeaderSet(@, headerContentType, applicationVNDAPIJSON),
                  headerAccept, applicationJSON)]

\* the headers UploadFile sets on the built request
uploadHeaders(req, data) ==
    [req EXCEPT !.header =
        HeaderSet(HeaderSet(@, headerContentType, data.ContentType),
                  headerContentDisposition, attachmentFilename(data.Filename))]

\* ---------------------------------------------------------------- response
\* what the transport returns from Do: an error and no response, or a response
\* with a status and a body that is a JSON data document, a JSON error
\* document, no JSON, or empty
Statuses  == {200, 201, 422, 500}
BodyKinds == {"data", "errors", "garbage", "empty"}

NilResp == [nil |-> TRUE, status |-> 0, body |-> "empty"]

Outcomes ==
    {[resp |-> NilResp, err |-> "transport"]}
    \cup {[resp |-> [nil |-> FALSE, status |-> st, body |-> b], err |-> NoErr] :
            st \in Statuses, b \in BodyKinds}

ZeroOut    == [id |-> <<>>]
DecodedOut == [id |-> <<"v1">>]

\* handleResponse(req, resp, err, out, expected): [err, out, closed], where
\* hasOut says the out pointer is not nil and closed counts the closes of the
\* response body
handleResponse(req, resp, err, hasOut, expected) ==
    IF err # NoErr
    THEN [err |-> "transport", out |-> ZeroOut, closed |-> 0]
    ELSE IF resp.status # expected
    THEN [err |-> IF resp.body = "errors" THEN "api" ELSE "status",
          out |-> ZeroOut, closed |-> 1]
    ELSE IF ~hasOut
    THEN [err |-> NoErr, out |-> ZeroOut, closed |-> 1]
    ELSE IF resp.body \in {"garbage", "empty"}
    THEN [err |-> "decode", out |-> ZeroOut, closed |-> 1]
    ELSE [err |-> NoErr,
          out |-> IF resp.body = "data" THEN DecodedOut ELSE ZeroOut,
          closed |-> 1]

NilResult == [nil |-> TRUE, out |-> ZeroOut]

\* a mutant of createReturn: the decoded value is returned next to the error
createReturn_Always(h) == [result |-> [nil |-> FALSE, out |-> h.out], err |-> h.err]

\* the return of a create operation after handleResponse: (nil, err) or (&out, nil)
createReturn(h) ==
    IF h.err # NoErr THEN [result |-> NilResult, err |-> h.err]
    ELSE [result |-> [nil |-> FALSE, out |-> h.out], err |-> NoErr]

\* the status an operation hands to handleResponse as the expected one
expectedStatus(op) == IF op = "UploadFile" THEN StatusOK ELSE StatusCreated

\* ------------------------------------------------------------------ inputs
Host == <<"https:", "/", "/", "tf.example">>

Local == <<"http:", "/", "/", "localhost:8080">>

Addrs  == {Host, Host \o <<"/">>, <<"/">> \o Host \o <<"/", "/">>, Local \o <<"/">>}
Tokens == {<<"tok1">>, <<"tok2">>}

Configs == [TFAddress : Addrs, TFToken : Tokens]

Orgs       == {<<"acme">>, <<"ac", DEL>>}
Regs       == {<<"priv">>}
Namespaces == {<<"myorg">>}
Provs      == {<<"tool">>}
Versions   == {<<"1.2.3">>, <<"2.0.0">>}

CreateBodies == {Struct(<<"1.2.3">>), Struct(<<"a", "\"">>), Unsupported}

Destinations == {<<"https:", "/", "/", "storage.example", "/", "x">>, <<"up", DEL>>}
Files        == {Reader(<<"PK", "\"">>), Reader(<<>>), NilValue}
ContentTypes == {<<"application/zip">>, <<"binary/octet-stream">>}

FilenameAtoms == {"tool.zip", "\"", "\\", DEL}
Filenames     == StringsUpTo(FilenameAtoms, MaxNameLen)

UploadRequests ==
    [Destination : Destinations, File : Files, ContentType : ContentTypes,
     Filename : Filenames]

\* ------------------------------------------------------------------- state
VARIABLES
    cfg,      \* the Config NewTFClient was given
    mw,       \* the tfClientMiddleware objects; mw[1] is TFClient.m
    nextHC,   \* the http.Client instances cleanhttp.DefaultClient() has made
    provs,    \* the TFProviderClient handles: the middleware each points to
    ups,      \* the TFUploadsClient handles: the middleware each points to
    call,     \* the operation in progress or last returned
    br        \* a direct application of buildRequest: its inputs and result

vars == <<cfg, mw, nextHC, provs, ups, call, br>>

NoArgs ==
    [orgName |-> <<>>, regName |-> <<>>, namespace |-> <<>>, provName |-> <<>>,
     provVersion |-> <<>>, body |-> NilValue,
     Destination |-> <<>>, ContentType |-> <<>>, Filename |-> <<>>]

IdleCall ==
    [pc |-> "idle", op |-> "none", m |-> 0, hc |-> 0, args |-> NoArgs,
     buildErr |-> NoErr, req |-> NilReq, nDo |-> 0, nHandle |-> 0,
     resp |-> NilResp, closed |-> 0, err |-> NoErr, result |-> NilResult]

BRNone == [state |-> "none"]

\* NewTFClient(cfg)
Init ==
    /\ cfg \in Configs
    /\ mw = <<newTFClientMiddleware(cfg, 1)>>
    /\ nextHC = 1
    /\ provs = <<>>
    /\ ups = <<>>
    /\ call = IdleCall
    /\ br = BRNone

\* TFClient.ProviderClient()
ProviderClient ==
    /\ Len(provs) + Len(ups) < MaxClients
    /\ provs' = Append(provs, 1)
    /\ UNCHANGED <<cfg, mw, nextHC, ups, call, br>>

\* TFClient.UploadsClient()
UploadsClient ==
    /\ Len(provs) + Len(ups) < MaxClients
    /\ nextHC' = nextHC + 1
    /\ mw' = Append(mw, copy(mw[1], nextHC + 1))
    /\ ups' = Append(ups, Len(mw) + 1)
    /\ UNCHANGED <<cfg, provs, call, br>>

\* a mutant of buildFailed: the error of buildRequest is ignored
buildFailed_Ignored(err) == FALSE

\* the test "if err != nil" after buildRequest
buildFailed(err) == err # NoErr

\* an operation up to its dispatch: it returns the error of buildRequest, or
\* hands the request with its headers to the transport of its middleware
Begin(op, m, args, b, req) ==
    IF buildFailed(b.err)
    THEN [IdleCall EXCEPT !.pc = "returned", !.op = op, !.m = m, !.args = args,
                          !.buildErr = b.err, !.err = b.err]
    ELSE [IdleCall EXCEPT !.pc = "inflight", !.op = op, !.m = m, !.args = args,
                          !.buildErr = b.err, !.hc = mw[m].hc, !.req = req, !.nDo = 1]

\* TFProviderClient.CreateProviderVersion, to the call of do
CreateProviderVersion ==
    /\ call.pc = "idle"
    /\ \E c \in 1..Len(provs), orgName \in Orgs, regName \in Regs,
          namespace \in Namespaces, provName \in Provs, data \in CreateBodies :
        LET tm    == mw[provs[c]]
            route == versionsRoute(orgName, regName, namespace, provName)
            b     == buildRequest(tm, MethodPost, route, NoQuery, data)
            args  == [NoArgs EXCEPT !.orgName = orgName, !.regName = regName,
                                    !.namespace = namespace, !.provName = provName,
                                    !.body = data]
        IN  call' = Begin("CreateProviderVersion", provs[c], args, b, createHeaders(b.req, tm))
    /\ UNCHANGED <<cfg, mw, nextHC, provs, ups, br>>

\* TFProviderClient.CreateProviderVersionPlatform, to the call of do
CreateProviderVersionPlatform ==
    /\ call.pc = "idle"
    /\ \E c \in 1..Len(provs), orgName \in Orgs, regName \in Regs,
          namespace \in Namespaces, provName \in Provs, provVersion \in Versions,
          data \in CreateBodies :
        LET tm    == mw[provs[c]]
            route == platformsRoute(orgName, regName, namespace, provName, provVersion)
            b     == buildRequest(tm, MethodPost, route, NoQuery, data)
            args  == [NoArgs EXCEPT !.orgName = orgName, !.regName = regName,
                                    !.namespace = namespace, !.provName = provName,
                                    !.provVersion = provVersion, !.body = data]
        IN  call' = Begin("CreateProviderVersionPlatform", provs[c], args, b,
                          createHeaders(b.req, tm))
    /\ UNCHANGED <<cfg, mw, nextHC, provs, ups, br>>

\* TFUploadsClient.UploadFile, to the call of do
UploadFile ==
    /\ call.pc = "idle"
    /\ \E c \in 1..Len(ups), data \in UploadRequests :
        LET tm   == mw[ups[c]]
            b    == buildRequest(tm, MethodPut, data.Destination, NoQuery, data.File)
            args == [NoArgs EXCEPT !.body = data.File, !.Destination = data.Destination,
                                   !.ContentType = data.ContentType,
                                   !.Filename = data.Filename]
        IN  call' = Begin("UploadFile", ups[c], args, b, uploadHeaders(b.req, data))
    /\ UNCHANGED <<cfg, mw, nextHC, provs, ups, br>>

\* the rest of a create operation: do returns, handleResponse, return
CreateDone(op) ==
    /\ call.pc = "inflight"
    /\ call.op = op
    /\ \E o \in Outcomes :
        LET h == handleResponse(call.req, o.resp, o.err, TRUE, expectedStatus(op))
            r == createReturn(h)
        IN  call' = [call EXCEPT !.pc = "returned", !.resp = o.resp,
                                 !.nHandle = @ + 1, !.closed = @ + h.closed,
                                 !.err = r.err, !.result = r.result]
    /\ UNCHANGED <<cfg, mw, nextHC, provs, ups, br>>

\* TFProviderClient.CreateProviderVersion, from the return of do
CreateProviderVersionDone == CreateDone("CreateProviderVersion")

\* TFProviderClient.CreateProviderVersionPlatform, from the return of do
CreateProviderVersionPlatformDone == CreateDone("CreateProviderVersionPlatform")

\* a mutant of UploadFileDone: a transport error sends the request again
UploadFileDone_Retry ==
    /\ call.pc = "inflight"
    /\ call.op = "UploadFile"
    /\ \E o \in Outcomes :
        IF o.err # NoErr /\ call.nDo < 2
        THEN call' = [call EXCEPT !.nDo = @ + 1]
        ELSE LET h == handleResponse(call.req, o.resp, o.err, FALSE, expectedStatus("UploadFile"))
             IN  call' = [call EXCEPT !.pc = "returned", !.resp = o.resp,
                                      !.nHandle = @ + 1, !.closed = @ + h.closed,
                                      !.err = h.err]
    /\ UNCHANGED <<cfg, mw, nextHC, provs, ups, br>>

\* TFUploadsClient.UploadFile, from the return of do
UploadFileDone ==
    /\ call.pc = "inflight"
    /\ call.op = "UploadFile"
    /\ \E o \in Outcomes :
        LET h == handleResponse(call.req, o.resp, o.err, FALSE, expectedStatus("UploadFile"))
        IN  call' = [call EXCEPT !.pc = "returned", !.resp = o.resp,
                                 !.nHandle = @ + 1, !.closed = @ + h.closed,
                                 !.err = h.err]
    /\ UNCHANGED <<cfg, mw, nextHC, provs, ups, br>>

\* the caller has the result of the operation and is free to call again
Return ==
    /\ call.pc = "returned"
    /\ call' = IdleCall
    /\ UNCHANGED <<cfg, mw, nextHC, provs, ups, br>>

Next ==
    \/ ProviderClient
    \/ UploadsClient
    \/ CreateProviderVersion
    \/ CreateProviderVersionDone
    \/ CreateProviderVersionPlatform
    \/ CreateProviderVersionPlatformDone
    \/ UploadFile
    \/ UploadFileDone
    \/ Return

Spec == Init /\ [][Next]_vars

\* ------------------------------------------- buildRequest applied directly
Methods     == {MethodPost, MethodPut, <<"P", " ", "T">>}
Routes      == {<<"x">>, <<"a", "/", "b">>, <<"r", DEL>>}
QueryValues == {<<"1">>, <<"x", " ", "/">>}
Queries     == UNION {[K -> QueryValues] : K \in SUBSET {"a", "b"}}
ByteAtoms   == {"PK", "\""}
Contents    == StringsUpTo(ByteAtoms, MaxBodyLen)
Bodies      ==
    {NilValue, Unsupported}
    \cup {Reader(b) : b \in Contents}
    \cup {Bytes(b) : b \in Contents}
    \cup {Struct(b) : b \in Contents}

InitBuild ==
    /\ cfg \in Configs
    /\ mw = <<newTFClientMiddleware(cfg, 1)>>
    /\ nextHC = 1
    /\ provs = <<>>
    /\ ups = <<>>
    /\ call = IdleCall
    /\ \E method \in Methods, routePath \in Routes, query \in Queries, body \in Bodies :
        br = [state |-> "input", method |-> method, routePath |-> routePath,
              query |-> query, body |-> body, req |-> NilReq, err |-> NoErr]

\* tm.buildRequest(ctx, method, routePath, query, body) on the TFClient's middleware
ApplyBuildRequest ==
    /\ br.state = "input"
    /\ LET b == buildRequest(mw[1], br.method, br.routePath, br.query, br.body)
       IN  br' = [br EXCEPT !.state = "built", !.req = b.req, !.err = b.err]
    /\ UNCHANGED <<cfg, mw, nextHC, provs, ups, call>>

NextBuild == ApplyBuildRequest

SpecBuild == InitBuild /\ [][NextBuild]_vars

\* ================================================================== claims
Creates == {"CreateProviderVersion", "CreateProviderVersionPlatform"}

Dispatched == call.nDo > 0

HasHeader(req, k) == k \in DOMAIN req.header

\* C1: UploadFile builds a PUT request whose URL is exactly data.Destination,
\* not combined with the registry base address.
C1_UploadURLIsDestination ==
    (call.op = "UploadFile" /\ Dispatched) =>
        /\ call.req.method = MethodPut
        /\ call.req.url = call.args.Destination

\* C2: a request a create operation dispatches carries "Bearer <configured
\* token>" in Authorization; a request UploadFile dispatches carries no
\* Authorization header, though its middleware holds the same token.
C2_BearerOnCreatesOnly ==
    /\ (call.op \in Creates /\ Dispatched) =>
          /\ HasHeader(call.req, headerAuthorization)
          /\ call.req.header[headerAuthorization] = <<"Bearer", " ">> \o cfg.TFToken
    /\ (call.op = "UploadFile" /\ Dispatched) =>
          /\ ~HasHeader(call.req, headerAuthorization)
          /\ mw[call.m].bearerToken = cfg.TFToken

C2_Witness ==
    /\ call.op = "UploadFile"
    /\ call.pc = "inflight"
    /\ mw[call.m].bearerToken = cfg.TFToken
    /\ cfg.TFToken # <<>>
    /\ Len(provs) > 0

\* C3: when buildRequest returns an error, the operation returns that error
\* (and, for a create, a nil result) with no call of do or handleResponse.
C3_BuildErrorNoNetwork ==
    (call.op # "none" /\ call.buildErr # NoErr) =>
        /\ call.pc = "returned"
        /\ call.err = call.buildErr
        /\ call.result.nil
        /\ call.nDo = 0
        /\ call.nHandle = 0
        /\ call.req.nil

C3_Witness ==
    /\ call.op = "CreateProviderVersion"
    /\ call.args.body = Unsupported
    /\ call.buildErr = "marshal"
    /\ call.pc = "returned"

\* C4: a create operation returns no error only on status 201, UploadFile only
\* on status 200; any other status gives an error; a create returns a non-nil
\* result exactly when its error is nil.
C4_ExpectedStatus ==
    call.pc = "returned" =>
        /\ (call.op \in Creates /\ call.err = NoErr) =>
              (Dispatched /\ ~call.resp.nil /\ call.resp.status = 201)
        /\ (call.op = "UploadFile" /\ call.err = NoErr) =>
              (Dispatched /\ ~call.resp.nil /\ call.resp.status = 200)
        /\ (call.op \in Creates /\ ~call.resp.nil /\ call.resp.status # 201) =>
              call.err # NoErr
        /\ (call.op = "UploadFile" /\ ~call.resp.nil /\ call.resp.status # 200) =>
              call.err # NoErr
        /\ (call.op \in Creates) => (call.result.nil <=> call.err # NoErr)

C4_Witness ==
    /\ call.pc = "returned"
    /\ call.op = "CreateProviderVersionPlatform"
    /\ call.resp.status = 201
    /\ call.err = NoErr
    /\ ~call.result.nil

\* the routes the registry API documents, written out for the arguments of the call
C5_ExpectedVersionsRoute ==
    <<"api", "/", "v2", "/", "organizations", "/">> \o call.args.orgName
    \o <<"/", "registry-providers", "/">> \o call.args.regName
    \o <<"/">> \o call.args.namespace
    \o <<"/">> \o call.args.provName
    \o <<"/", "versions">>

C5_ExpectedPlatformsRoute ==
    C5_ExpectedVersionsRoute \o <<"/">> \o call.args.provVersion \o <<"/", "platforms">>

\* C5: the version-create route is api/v2/organizations/{org}/
\* registry-providers/{registryName}/{namespace}/{providerName}/versions, the
\* platform-create route is that route followed by /{version}/platforms, and
\* the URL of the request is base + "/" + route with no query string.
C5_Routes ==
    /\ call.op = "CreateProviderVersion" =>
          /\ versionsRoute(call.args.orgName, call.args.regName, call.args.namespace,
                           call.args.provName) = C5_ExpectedVersionsRoute
          /\ Dispatched =>
                call.req.url = mw[call.m].addr \o <<"/">> \o C5_ExpectedVersionsRoute
    /\ call.op = "CreateProviderVersionPlatform" =>
          /\ platformsRoute(call.args.orgName, call.args.regName, call.args.namespace,
                            call.args.provName, call.args.provVersion)
                = C5_ExpectedPlatformsRoute
          /\ Dispatched =>
                call.req.url = mw[call.m].addr \o <<"/">> \o C5_ExpectedPlatformsRoute
    /\ (call.op \in Creates /\ Dispatched) => ~Contains(call.req.url, "?")

C5_Witness ==
    /\ call.op = "CreateProviderVersionPlatform"
    /\ call.pc = "inflight"
    /\ call.args.orgName = <<"acme">>
    /\ call.args.provVersion = <<"1.2.3">>
    /\ call.req.url =
         Host \o <<"/", "api", "/", "v2", "/", "organizations", "/", "acme", "/",
                   "registry-providers", "/", "priv", "/", "myorg", "/", "tool", "/",
                   "versions", "/", "1.2.3", "/", "platforms">>

RawBody(body) == body.kind \in {"reader", "bytes"}

\* C6: buildRequest with an io.Reader or []byte body never returns a
\* serialization error and never JSON-encodes the body: the request it
\* returns has a body byte-identical to the input, and it returns one whenever
\* the method and the URL are well-formed.
C6_RawBodyPassThrough ==
    (br.state = "built" /\ RawBody(br.body)) =>
        /\ br.err # "marshal"
        /\ br.err = NoErr =>
              /\ ~br.req.nil
              /\ ~br.req.body.nil
              /\ br.req.body.bytes = br.body.bytes
        /\ (~Contains(br.method, " ") /\ ~Contains(br.routePath, DEL)) => br.err = NoErr

C6_Witness ==
    /\ br.state = "built"
    /\ br.body = Bytes(<<"PK", "\"">>)
    /\ DOMAIN br.query # {}
    /\ ~br.req.nil
    /\ br.req.body.bytes = <<"PK", "\"">>

PlainFilename(f) == \A i \in 1..Len(f) : f[i] \notin {"\"", "\\", DEL}

\* reading back a Go-quoted string body: [ok, s], ok false at a bare double
\* quote, a bare control character or a broken escape
RECURSIVE Unescape(_)
Unescape(q) ==
    IF q = <<>> THEN [ok |-> TRUE, s |-> <<>>]
    ELSE IF Head(q) = "\\"
    THEN IF Len(q) < 2 THEN [ok |-> FALSE, s |-> <<>>]
         ELSE LET rest == Unescape(Tail(Tail(q)))
                  c    == CASE q[2] = "\"" -> "\""
                            [] q[2] = "\\" -> "\\"
                            [] q[2] = "x7f" -> DEL
                            [] OTHER -> "?"
              IN  [ok |-> rest.ok /\ c # "?", s |-> <<c>> \o rest.s]
    ELSE IF Head(q) \in {"\"", DEL} THEN [ok |-> FALSE, s |-> <<>>]
    ELSE LET rest == Unescape(Tail(q))
         IN  [ok |-> rest.ok, s |-> <<Head(q)>> \o rest.s]

DispositionPrefix == <<"attachment;", " ", "filename=">>

\* C7 as stated: the filename appears verbatim between the double quotes for
\* every filename, and Content-Type is the supplied content type.
C7_FilenameVerbatim ==
    (call.op = "UploadFile" /\ Dispatched) =>
        /\ call.req.header[headerContentDisposition] =
              DispositionPrefix \o <<"\"">> \o call.args.Filename \o <<"\"">>
        /\ call.req.header[headerContentType] = call.args.ContentType

\* C7 (amended): Content-Disposition is attachment; filename= followed by the
\* Go-quoted filename: verbatim between the double quotes when the filename
\* has no double quote, backslash or non-printable character; otherwise each
\* of these is written as a backslash escape, so that the quoted string reads
\* back as the filename. Content-Type is the supplied content type.
C7_FilenameQuoted ==
    (call.op = "UploadFile" /\ Dispatched) =>
        LET cd    == call.req.header[headerContentDisposition]
            n     == Len(DispositionPrefix)
            inner == SubSeq(cd, n + 2, Len(cd) - 1)
        IN  /\ call.req.header[headerContentType] = call.args.ContentType
            /\ Len(cd) >= n + 2
            /\ SubSeq(cd, 1, n) = DispositionPrefix
            /\ cd[n + 1] = "\""
            /\ cd[Len(cd)] = "\""
            /\ Unescape(inner).ok
            /\ Unescape(inner).s = call.args.Filename
            /\ PlainFilename(call.args.Filename) <=> inner = call.args.Filename

C7_Witness ==
    /\ call.op = "UploadFile"
    /\ call.pc = "inflight"
    /\ call.args.Filename = <<"tool.zip", "\"">>
    /\ call.req.header[headerContentDisposition] =
          <<"attachment;", " ", "filename=", "\"", "tool.zip", "\\", "\"", "\"">>

\* C8: every upload client has a transport of its own, distinct from the
\* TFClient's (which every provider client shares) and from every other
\* upload client's, and the TFClient's middleware stays as NewTFClient set it.
C8_IsolatedTransports ==
    /\ \A i \in 1..Len(ups) :
          /\ ups[i] # 1
          /\ mw[ups[i]].hc # mw[1].hc
          /\ \A j \in 1..Len(ups) : i # j => mw[ups[i]].hc # mw[ups[j]].hc
    /\ \A i \in 1..Len(provs) : mw[provs[i]].hc = mw[1].hc
    /\ mw[1] = [addr |-> Trim(cfg.TFAddress, "/"), bearerToken |-> cfg.TFToken, hc |-> 1]

C8_Witness ==
    /\ Len(ups) >= 2
    /\ Len(provs) >= 1
    /\ mw[ups[1]].hc # mw[ups[2]].hc

\* C9: an invocation puts at most one request through the transport, and a
\* dispatched request is handed to handleResponse exactly once, whatever the
\* outcome.
C9_SingleAttempt ==
    /\ call.nDo <= 1
    /\ call.nHandle <= call.nDo
    /\ call.pc = "inflight" => (call.nDo = 1 /\ call.nHandle = 0)
    /\ call.pc = "returned" => call.nHandle = call.nDo

C9_Witness ==
    /\ call.pc = "returned"
    /\ call.op = "UploadFile"
    /\ call.err = "transport"
    /\ call.nDo = 1
    /\ call.nHandle = 1

\* C10: the address (slashes trimmed) and the bearer token of the TFClient
\* and of every derived client are the ones NewTFClient set from the Config,
\* after any sequence of calls.
C10_ConfigImmutable ==
    /\ \A i \in 1..Len(mw) :
          /\ mw[i].addr = Trim(cfg.TFAddress, "/")
          /\ mw[i].bearerToken = cfg.TFToken
    /\ \A i \in 1..Len(provs) : provs[i] \in 1..Len(mw)
    /\ \A i \in 1..Len(ups) : ups[i] \in 1..Len(mw)

C10_Witness ==
    /\ call.pc = "returned"
    /\ call.op = "UploadFile"
    /\ call.nDo = 1
    /\ Len(provs) >= 1
    /\ cfg.TFAddress # Trim(cfg.TFAddress, "/")
    /\ mw[call.m].addr = Host

====
